---- MODULE Spec2Model ----
(***************************************************************************)
(* Model of internal/plugins/ai/openai: the CopilotTransport round         *)
(* tripper, the isGitHubCopilotURL classifier, the citation collation      *)
(* loop and the response-parameter builder.                                *)
(*                                                                         *)
(* Go strings are sequences of one-character strings, so that lower-casing,*)
(* concatenation and substring search are computed character by character.*)
(***************************************************************************)
EXTENDS Integers, Sequences, FiniteSets, TLC

(***************************************************************************)
(* Bounds of the model.                                                    *)
(***************************************************************************)
\* number of goroutines calling RoundTrip on the one shared transport
NCallers == 2

\* longest sequence of citation entries collated
MaxEntries == 3

Callers == 1 .. NCallers

VARIABLES
  \* ---- CopilotTransport ----
  baseArg,   \* the argument NewCopilotTransport was called with
  base,      \* CopilotTransport.base
  heap,      \* reference -> header map (http.Header values are maps: shared by reference)
  req,       \* caller -> reference of the Header of its request
  before,    \* caller -> the header map of its request when it was built
  pc,        \* caller -> position inside RoundTrip
  newReq,    \* caller -> reference of newReq.Header (0: no clone yet)
  touched,   \* reference -> callers whose call in progress read or wrote the map
  sent,      \* caller -> header map the underlying executor received
  sentTo,    \* caller -> executor that was invoked
  calls,     \* caller -> invocations of the underlying executor in this call
  baseRet,   \* caller -> what the underlying executor returned
  ret,       \* caller -> what RoundTrip returned
  \* ---- isGitHubCopilotURL ----
  url,       \* the URL under classification, as scheme, host and rest
  verdict,   \* the value isGitHubCopilotURL returned
  upc,       \* "input" before the call, "classified" after
  \* ---- citation collation ----
  mockCitations, \* the citation entries, in order
  citationMap,   \* keys seen
  citations,     \* rendered lines
  result,        \* the final text
  cpc,           \* "input" before the loop, "collated" after
  \* ---- buildResponseParams ----
  opts,      \* the ChatOptions
  params,    \* the request built
  bpc        \* "input" before the call, "built" after

tvars ==
  << baseArg, base, heap, req, before, pc, newReq, touched, sent, sentTo,
     calls, baseRet, ret >>
uvars == << url, verdict, upc >>
cvars == << mockCitations, citationMap, citations, result, cpc >>
bvars == << opts, params, bpc >>
vars == << tvars, uvars, cvars, bvars >>

(***************************************************************************)
(* Strings                                                                 *)
(***************************************************************************)
UpperLetters == <<"A", "B", "C", "D", "E", "F", "G", "H", "I", "J", "K", "L", "M", "N", "O", "P", "Q", "R", "S", "T", "U", "V", "W", "X", "Y", "Z">>
LowerLetters == <<"a", "b", "c", "d", "e", "f", "g", "h", "i", "j", "k", "l", "m", "n", "o", "p", "q", "r", "s", "t", "u", "v", "w", "x", "y", "z">>

\* unicode.ToLower on one character of the model's alphabet
ToLowerChar(ch) ==
  IF \E i \in 1 .. 26 : UpperLetters[i] = ch
  THEN LowerLetters[CHOOSE i \in 1 .. 26 : UpperLetters[i] = ch]
  ELSE ch

\* strings.ToLower
ToLower(s) == [i \in 1 .. Len(s) |-> ToLowerChar(s[i])]

\* strings.Contains
Contains(s, substr) ==
  \E i \in 0 .. (Len(s) - Len(substr)) :
    SubSeq(s, i + 1, i + Len(substr)) = substr

\* strings.Join
RECURSIVE Join(_, _)
Join(elems, sep) ==
  IF Len(elems) = 0 THEN <<>>
  ELSE IF Len(elems) = 1 THEN elems[1]
  ELSE elems[1] \o sep \o Join(Tail(elems), sep)

(***************************************************************************)
(* net/http values the transport handles.                                  *)
(***************************************************************************)
\* the nil interface value / nil pointer / nil error
Nil == "nil"

\* http.RoundTripper instances; DefaultTransport is http.DefaultTransport
DefaultTransport == "http.DefaultTransport"
Executors == {DefaultTransport, "customTransport"}

\* what an http.RoundTripper returns: (*http.Response, error)
Outcomes ==
  { [resp |-> "200 OK", err |-> Nil],
    [resp |-> Nil, err |-> "context canceled"] }

NoOutcome == [resp |-> "none", err |-> "none"]

\* http.Header is map[string][]string; a header map is a function from the
\* keys present to the sequence of values of each
EmptyHeader == [k \in {} |-> <<>>]

\* textproto.CanonicalMIMEHeaderKey on the keys of the model: the first
\* letter and every letter after a hyphen upper case, the rest lower case
CanonicalMIMEHeaderKey(k) ==
  CASE k = "X-GitHub-Api-Version" -> "X-Github-Api-Version"
    [] OTHER -> k

\* the header name and value of RoundTrip
ApiVersionHeader == "X-GitHub-Api-Version"
ApiVersionValue == "2023-05-01"

\* http.Header.Values(key): the values stored under the canonical key
HeaderValues(h, key) ==
  IF CanonicalMIMEHeaderKey(key) \in DOMAIN h
  THEN h[CanonicalMIMEHeaderKey(key)]
  ELSE <<>>

\* http.Header.Add(key, value): appends under the canonical key
HeaderAdd(h, key, value) ==
  LET ck == CanonicalMIMEHeaderKey(key)
  IN [k \in DOMAIN h \cup {ck} |->
        IF k = ck THEN HeaderValues(h, key) \o <<value>> ELSE h[k]]

\* http.Header.Set(key, value): replaces the values under the canonical key
HeaderSet(h, key, value) ==
  LET ck == CanonicalMIMEHeaderKey(key)
  IN [k \in DOMAIN h \cup {ck} |-> IF k = ck THEN <<value>> ELSE h[k]]

\* The header maps callers put on their requests.  Keys written through
\* Header.Set/Add are canonical ("X-Github-Api-Version"); the raw key
\* "X-GitHub-Api-Version" is a map entry assigned directly, which Go keeps
\* as a separate entry.  http.NewRequest and http.Client.send always
\* allocate the map, so every request has one (possibly empty).
AuthChoices == { <<>>, <<"Bearer test-token">> }
VersionChoices == { <<>>, <<"2022-11-28">>, <<"2022-11-28", "2021-01-01">> }
RawVersionChoices == { <<>>, <<"2022-11-28">> }

MakeHeader(auth, ver, raw) ==
  LET present == (IF auth = <<>> THEN {} ELSE {"Authorization"})
                 \cup (IF ver = <<>> THEN {} ELSE {"X-Github-Api-Version"})
                 \cup (IF raw = <<>> THEN {} ELSE {"X-GitHub-Api-Version"})
  IN [k \in present |->
        IF k = "Authorization" THEN auth
        ELSE IF k = "X-Github-Api-Version" THEN ver ELSE raw]

RequestHeaders ==
  { MakeHeader(a, v, r) :
      a \in AuthChoices, v \in VersionChoices, r \in RawVersionChoices }

(***************************************************************************)
(* CopilotTransport                                                        *)
(***************************************************************************)
Refs == 1 .. (2 * NCallers)

\* the map of caller c's own request header
OwnRef(c) == c

\* a clone map shared by every call (a pooled request)
SharedRef(c) == NCallers + 1

\* the map a call allocates for its clone: Header.Clone makes a new map
NewRef(c) == NCallers + c

\* the call a map belongs to
Owner(r) == IF r <= NCallers THEN r ELSE r - NCallers

\* keeps the nil it was given
NoDefaultTransport(b) == b

\* NewCopilotTransport(base).base
NewCopilotTransport(b) == IF b = Nil THEN DefaultTransport ELSE b

\* a copy of the request struct alone: the clone shares the caller's map
ShallowClone(c) == [ ref |-> req[c], heap |-> heap ]

\* req.Clone(ctx): a new request whose Header is a deep copy in a new map.
\* Yields the reference of the clone's header and the heap after the copy.
Clone(c) ==
  [ ref |-> NewRef(c),
    heap |-> [heap EXCEPT ![NewRef(c)] = heap[req[c]]] ]

\* newReq := req.Clone(req.Context())
RoundTripClone(c) ==
  /\ pc[c] = "idle"
  /\ LET cl == Clone(c)
     IN /\ heap' = cl.heap
        /\ newReq' = [newReq EXCEPT ![c] = cl.ref]
        /\ touched' = [r \in Refs |->
                         IF r = req[c] \/ r = cl.ref
                         THEN touched[r] \cup {c} ELSE touched[r]]
  /\ pc' = [pc EXCEPT ![c] = "cloned"]
  /\ UNCHANGED << uvars, cvars, bvars >>
  /\ UNCHANGED << baseArg, base, req, before, sent, sentTo, calls, baseRet, ret >>

\* newReq.Header.Set("X-GitHub-Api-Version", "2023-05-01")
RoundTripSet(c) ==
  /\ pc[c] = "cloned"
  /\ heap' = [heap EXCEPT
                ![newReq[c]] = HeaderSet(@, ApiVersionHeader, ApiVersionValue)]
  /\ touched' = [touched EXCEPT ![newReq[c]] = @ \cup {c}]
  /\ pc' = [pc EXCEPT ![c] = "set"]
  /\ UNCHANGED << uvars, cvars, bvars >>
  /\ UNCHANGED << baseArg, base, req, before, newReq, sent, sentTo, calls,
                  baseRet, ret >>

\* the call t.base.RoundTrip(newReq): the executor receives the clone
RoundTripForward(c) ==
  /\ pc[c] = "set"
  /\ sent' = [sent EXCEPT ![c] = heap[newReq[c]]]
  /\ sentTo' = [sentTo EXCEPT ![c] = base]
  /\ calls' = [calls EXCEPT ![c] = @ + 1]
  /\ touched' = [touched EXCEPT ![newReq[c]] = @ \cup {c}]
  /\ pc' = [pc EXCEPT ![c] = "forwarded"]
  /\ UNCHANGED << uvars, cvars, bvars >>
  /\ UNCHANGED << baseArg, base, heap, req, before, newReq, baseRet, ret >>

\* an error wrapped on the way out (fmt.Errorf("copilot: %w", err))
WrapReturn(out) ==
  IF out.err = Nil THEN out ELSE [out EXCEPT !.err = "copilot: " \o out.err]

\* return t.base.RoundTrip(newReq): both results handed back as they are
Return(out) == out

\* the executor answers and RoundTrip returns
RoundTripReturn(c) ==
  /\ pc[c] = "forwarded"
  /\ \E out \in Outcomes :
       /\ baseRet' = [baseRet EXCEPT ![c] = out]
       /\ ret' = [ret EXCEPT ![c] = Return(out)]
  /\ pc' = [pc EXCEPT ![c] = "done"]
  /\ UNCHANGED << uvars, cvars, bvars >>
  /\ UNCHANGED << baseArg, base, heap, req, before, newReq, touched, sent,
                  sentTo, calls >>

\* the caller reuses its request for another call; the finished call's
\* clone is garbage
Reuse(c) ==
  /\ pc[c] = "done"
  /\ pc' = [pc EXCEPT ![c] = "idle"]
  /\ UNCHANGED << uvars, cvars, bvars >>
  /\ heap' = [heap EXCEPT
                ![newReq[c]] = IF newReq[c] = req[c] THEN @ ELSE EmptyHeader]
  /\ touched' = [r \in Refs |->
                   IF r = req[c] \/ r = newReq[c]
                   THEN touched[r] \ {c} ELSE touched[r]]
  /\ newReq' = [newReq EXCEPT ![c] = 0]
  /\ sent' = [sent EXCEPT ![c] = EmptyHeader]
  /\ sentTo' = [sentTo EXCEPT ![c] = Nil]
  /\ calls' = [calls EXCEPT ![c] = 0]
  /\ baseRet' = [baseRet EXCEPT ![c] = NoOutcome]
  /\ ret' = [ret EXCEPT ![c] = NoOutcome]
  /\ UNCHANGED << baseArg, base, req, before >>

\* a transport built from b whose callers hold requests with headers hs
TransportBuilt(b, hs) ==
  /\ baseArg = b
  /\ base = NewCopilotTransport(b)
  /\ before = hs
  /\ req = [c \in Callers |-> OwnRef(c)]
  /\ heap = [r \in Refs |-> IF r \in Callers THEN hs[r] ELSE EmptyHeader]
  /\ pc = [c \in Callers |-> "idle"]
  /\ newReq = [c \in Callers |-> 0]
  /\ touched = [r \in Refs |-> {}]
  /\ sent = [c \in Callers |-> EmptyHeader]
  /\ sentTo = [c \in Callers |-> Nil]
  /\ calls = [c \in Callers |-> 0]
  /\ baseRet = [c \in Callers |-> NoOutcome]
  /\ ret = [c \in Callers |-> NoOutcome]

TransportInit ==
  \E b \in Executors \cup {Nil} :
    \E hs \in [Callers -> RequestHeaders] : TransportBuilt(b, hs)

\* no transport activity: the state the other components run beside
TransportQuiet == TransportBuilt(Nil, [c \in Callers |-> EmptyHeader])

TransportNext ==
  \E c \in Callers :
    \/ RoundTripClone(c)
    \/ RoundTripSet(c)
    \/ RoundTripForward(c)
    \/ RoundTripReturn(c)
    \/ Reuse(c)

\* the executor has received caller c's forwarded request
Forwarded(c) == pc[c] \in {"forwarded", "done"}

\* C1: the caller's original request is left unchanged by RoundTrip: at
\* every point of the call and after it, whether the executor succeeded or
\* failed, its header map has exactly the names and values it had before,
\* and gains no X-GitHub-Api-Version entry it did not carry.
C1_OriginalRequestUnchanged ==
  \A c \in Callers :
    /\ heap[req[c]] = before[c]
    /\ DOMAIN heap[req[c]] = DOMAIN before[c]
    /\ HeaderValues(heap[req[c]], ApiVersionHeader)
         = HeaderValues(before[c], ApiVersionHeader)

\* a call on a request without the version header has failed in the
\* executor, which did receive the header, and the original still lacks it
C1_Witness ==
  \E c \in Callers :
    /\ pc[c] = "done"
    /\ ret[c].err # Nil
    /\ HeaderValues(before[c], ApiVersionHeader) = <<>>
    /\ HeaderValues(sent[c], ApiVersionHeader) = <<ApiVersionValue>>
    /\ HeaderValues(heap[req[c]], ApiVersionHeader) = <<>>

\* every header of the caller other than the version header is on the
\* forwarded request with its value, and nothing else but the version header is
OtherHeadersKept(c) ==
  /\ DOMAIN sent[c] = DOMAIN before[c] \cup {"X-Github-Api-Version"}
  /\ \A k \in DOMAIN before[c] \ {"X-Github-Api-Version"} :
       sent[c][k] = before[c][k]

\* C2: the forwarded request carries X-GitHub-Api-Version with exactly the
\* single value 2023-05-01, also when the caller had set another value or
\* several; every other header of the original is on it unchanged, and no
\* other header is added or removed.
C2_ForwardedCarriesVersionAndRest ==
  \A c \in Callers :
    Forwarded(c) =>
      /\ HeaderValues(sent[c], "X-GitHub-Api-Version") = <<"2023-05-01">>
      /\ OtherHeadersKept(c)

\* a request that carried two other version values and an Authorization
\* header has been forwarded
C2_Witness ==
  \E c \in Callers :
    /\ Forwarded(c)
    /\ Len(HeaderValues(before[c], "X-GitHub-Api-Version")) = 2
    /\ "Authorization" \in DOMAIN before[c]
    /\ sent[c]["Authorization"] = before[c]["Authorization"]

\* C3: RoundTrip invokes the underlying executor exactly once per call and
\* returns exactly what it returned, a failure as well as a response.
C3_ExecutorOnceResultUnmodified ==
  \A c \in Callers :
    /\ pc[c] \in {"idle", "cloned", "set"} => calls[c] = 0
    /\ Forwarded(c) => calls[c] = 1
    /\ pc[c] = "done" => ret[c] = baseRet[c] /\ ret[c] \in Outcomes

\* one call has returned the executor's failure and another its response
C3_Witness ==
  /\ \E c \in Callers : pc[c] = "done" /\ ret[c].err = "context canceled"
  /\ \E c \in Callers : pc[c] = "done" /\ ret[c].resp = "200 OK"

\* no map is read or written by a call other than the one it belongs to
NoForeignAccess == \A r \in Refs : touched[r] \subseteq {Owner(r)}

\* C4: under every interleaving of concurrent calls on one transport each
\* forwarded request carries its own caller's headers plus the version
\* header, no call touches another call's request or clone, and the
\* wrapped executor is never changed after construction.
C4_ConcurrentCallsIsolated ==
  /\ [](\A c \in Callers :
          Forwarded(c) =>
            /\ HeaderValues(sent[c], "X-GitHub-Api-Version") = <<"2023-05-01">>
            /\ OtherHeadersKept(c)
            /\ sentTo[c] = base)
  /\ []NoForeignAccess
  /\ [][base' = base]_vars

\* two calls with different headers are in flight at once: one has been
\* forwarded while the other holds a clone it has not yet forwarded
C4_Witness ==
  \E c1, c2 \in Callers :
    /\ c1 # c2
    /\ before[c1] # before[c2]
    /\ pc[c1] = "forwarded"
    /\ pc[c2] = "set"

\* C10: NewCopilotTransport(nil) wraps the default executor, and with an
\* explicit executor wraps that instance; so the transport always has an
\* executor, and it is the one calls are forwarded to.
C10_ConstructorDefaultsBase ==
  /\ baseArg = Nil => base = DefaultTransport
  /\ baseArg # Nil => base = baseArg
  /\ base \in Executors
  /\ \A c \in Callers : Forwarded(c) => sentTo[c] \in Executors

\* a transport built from nil has forwarded a call to the default executor
C10_Witness ==
  /\ baseArg = Nil
  /\ \E c \in Callers : Forwarded(c) /\ sentTo[c] = DefaultTransport

(***************************************************************************)
(* isGitHubCopilotURL                                                      *)
(***************************************************************************)
\* the marker the URL is searched for
CopilotMarker == <<"a", "p", "i", ".", "g", "i", "t", "h", "u", "b", "c", "o", "p", "i", "l", "o", "t", ".", "c", "o", "m">>

\* the search without the lower-casing
ContainsMarkerExact(u) == Contains(u, CopilotMarker)

\* isGitHubCopilotURL(url)
isGitHubCopilotURL(u) == Contains(ToLower(u), CopilotMarker)

\* URLs are put together from a scheme, a host and the rest (port, path,
\* query), so that the host of each is known; the function sees the text.
Schemes == { <<"h", "t", "t", "p", "s", ":", "/", "/">>, <<"h", "t", "t", "p", ":", "/", "/">> }

Hosts ==
  { <<"a", "p", "i", ".", "g", "i", "t", "h", "u", "b", "c", "o", "p", "i", "l", "o", "t", ".", "c", "o", "m">>,
    <<"A", "P", "I", ".", "G", "I", "T", "H", "U", "B", "C", "O", "P", "I", "L", "O", "T", ".", "C", "O", "M">>,
    <<"A", "p", "i", ".", "G", "i", "t", "H", "u", "b", "C", "o", "p", "i", "l", "o", "t", ".", "c", "o", "m">>,
    <<"a", "p", "i", ".", "g", "i", "t", "h", "u", "b", "c", "o", "p", "i", "l", "o", "t", ".", "c", "o">>,
    <<"g", "i", "t", "h", "u", "b", "c", "o", "p", "i", "l", "o", "t", ".", "c", "o", "m">>,
    <<"a", "p", "i", ".", "g", "i", "t", "h", "u", "b", "c", "o", "p", "i", "l", "o", "t", ".", "c", "o", "m", ".", "e", "v", "i", "l", ".", "i", "o">>,
    <<"a", "p", "i", ".", "o", "p", "e", "n", "a", "i", ".", "c", "o", "m">>,
    <<"m", "y", "r", "e", "s", "o", "u", "r", "c", "e", ".", "o", "p", "e", "n", "a", "i", ".", "a", "z", "u", "r", "e", ".", "c", "o", "m">>,
    <<"l", "o", "c", "a", "l", "h", "o", "s", "t">> }

Rests ==
  { <<>>,
    <<"/", "v", "1">>,
    <<"/", "v", "1", "/", "c", "h", "a", "t", "/", "c", "o", "m", "p", "l", "e", "t", "i", "o", "n", "s">>,
    <<":", "1", "1", "4", "3", "4">>,
    <<"/", "v", "1", "?", "v", "i", "a", "=", "a", "p", "i", ".", "g", "i", "t", "h", "u", "b", "c", "o", "p", "i", "l", "o", "t", ".", "c", "o", "m">>,
    <<"/", "p", "r", "o", "x", "y", "/", "A", "P", "I", ".", "G", "i", "t", "H", "u", "b", "C", "o", "p", "i", "l", "o", "t", ".", "c", "o", "m", "/", "v", "1">>,
    <<"/", "%", "z", "z", "?", "a", " ", "b">> }

\* strings that are no URL at all: the empty string and malformed text
RawTexts == { <<>>, <<"%", "z", "z">>, <<":", "/", "/">>, <<"n", "o", "t", " ", "a", " ", "u", "r", "l">> }

URLs ==
  { [scheme |-> s, host |-> h, rest |-> r] :
      s \in Schemes, h \in Hosts, r \in Rests }
  \cup { [scheme |-> <<>>, host |-> <<>>, rest |-> t] : t \in RawTexts }

\* the string handed to isGitHubCopilotURL
URLText(u) == u.scheme \o u.host \o u.rest

URLInputs ==
  /\ url \in URLs
  /\ verdict = FALSE
  /\ upc = "input"

URLQuiet ==
  /\ url = [scheme |-> <<>>, host |-> <<>>, rest |-> <<>>]
  /\ verdict = FALSE
  /\ upc = "input"

\* the call isGitHubCopilotURL(url)
Classify ==
  /\ upc = "input"
  /\ verdict' = isGitHubCopilotURL(URLText(url))
  /\ upc' = "classified"
  /\ UNCHANGED << url, tvars, cvars, bvars >>

\* C5: isGitHubCopilotURL returns false whenever the URL's host is not
\* api.githubcopilot.com (the empty string, the default provider's domain,
\* Azure, self-hosted and local endpoints), whatever path or query follow.
C5_OtherHostIsNotCopilot ==
  (upc = "classified" /\ ToLower(url.host) # CopilotMarker) => verdict = FALSE

\* two characters equal up to letter case
SameLetter(a, b) ==
  \/ a = b
  \/ \E i \in 1 .. 26 :
       {a, b} = {UpperLetters[i], LowerLetters[i]}

\* the marker occurs in s at offset i, letter case aside
MarkerAt(s, i) ==
  /\ i + Len(CopilotMarker) <= Len(s)
  /\ \A j \in 1 .. Len(CopilotMarker) : SameLetter(s[i + j], CopilotMarker[j])

\* C6: isGitHubCopilotURL answers for every string, malformed ones too, and
\* answers true exactly when the string contains api.githubcopilot.com
\* compared case-insensitively; so a Copilot base URL is detected with or
\* without a path and in any letter case.
C6_TrueIffContainsMarkerAnyCase ==
  upc = "classified" =>
    /\ verdict \in BOOLEAN
    /\ verdict <=> (\E i \in 0 .. Len(URLText(url)) : MarkerAt(URLText(url), i))

\* a Copilot URL written with capitals and followed by a path was detected
C6_Witness ==
  /\ upc = "classified"
  /\ verdict = TRUE
  /\ url.host # ToLower(url.host)
  /\ ToLower(url.host) = CopilotMarker
  /\ Len(url.rest) > 0

(***************************************************************************)
(* Citation collation                                                      *)
(***************************************************************************)
\* the URLs and titles entries are made of
CitationURLs == { <<"u">>, <<"u", "|", "v">>, <<"w">> }
CitationTitles == { <<"t">>, <<"v", "|", "t">>, <<>> }

CitationEntries ==
  { [URL |-> u, Title |-> t] : u \in CitationURLs, t \in CitationTitles }

RECURSIVE SeqsUpTo(_, _)
SeqsUpTo(S, n) ==
  IF n = 0 THEN { <<>> }
  ELSE LET shorter == SeqsUpTo(S, n - 1)
       IN shorter \cup { Append(s, x) : s \in { t \in shorter : Len(t) = n - 1 }, x \in S }

\* the text the citations are appended to
TextParts == << <<"A", "n", "s", "w", "e", "r", ".">> >>

\* citationKey := citation.URL + "|" + citation.Title
CitationKey(e) == e.URL \o <<"|">> \o e.Title

\* citationText := "- [" + citation.Title + "](" + citation.URL + ")"
CitationText(e) == <<"-", " ", "[">> \o e.Title \o <<"]", "(">> \o e.URL \o <<")">>

\* the loop over the entries from citationMap seen and citations lines
RECURSIVE CollateLoop(_, _, _)
CollateLoop(es, seen, lines) ==
  IF es = <<>> THEN [citationMap |-> seen, citations |-> lines]
  ELSE IF CitationKey(Head(es)) \notin seen
       THEN CollateLoop(Tail(es), seen \cup {CitationKey(Head(es))},
                        Append(lines, CitationText(Head(es))))
       ELSE CollateLoop(Tail(es), seen, lines)

\* result := strings.Join(textParts, ""), then the Sources section
FormatResult(lines) ==
  Join(TextParts, <<>>)
    \o (IF Len(lines) > 0
        THEN <<"\n", "\n", "#", "#", " ", "S", "o", "u", "r", "c", "e", "s", "\n", "\n">> \o Join(lines, <<"\n">>)
        ELSE <<>>)

CitationInputs ==
  /\ mockCitations \in SeqsUpTo(CitationEntries, MaxEntries)
  /\ citationMap = {}
  /\ citations = <<>>
  /\ result = <<>>
  /\ cpc = "input"

CitationQuiet ==
  /\ mockCitations = <<>>
  /\ citationMap = {}
  /\ citations = <<>>
  /\ result = <<>>
  /\ cpc = "input"

\* the collation: the loop, then the result
Collate ==
  /\ cpc = "input"
  /\ LET out == CollateLoop(mockCitations, {}, <<>>)
     IN /\ citationMap' = out.citationMap
        /\ citations' = out.citations
        /\ result' = FormatResult(out.citations)
  /\ cpc' = "collated"
  /\ UNCHANGED << mockCitations, tvars, uvars, bvars >>

\* the entries of es no earlier entry equals in url and title, in order
FirstOccurrences(es) ==
  LET keep == { i \in 1 .. Len(es) : \A j \in 1 .. (i - 1) : es[j] # es[i] }
      RECURSIVE Pick(_)
      Pick(i) ==
        IF i > Len(es) THEN <<>>
        ELSE IF i \in keep THEN <<es[i]>> \o Pick(i + 1) ELSE Pick(i + 1)
  IN Pick(1)

\* C7: the collated output has exactly one line "- [title](url)" per
\* distinct (url, title) pair of the input, in order of first occurrence:
\* an entry is dropped only when an earlier entry has the same url and the
\* same title; the Sources header is there exactly when there is an entry.
C7_OneLinePerDistinctPair ==
  cpc = "collated" =>
    /\ citations =
         [i \in 1 .. Len(FirstOccurrences(mockCitations)) |->
            CitationText(FirstOccurrences(mockCitations)[i])]
    /\ Contains(result, <<"#", "#", " ", "S", "o", "u", "r", "c", "e", "s">>) <=> Len(mockCitations) > 0

(***************************************************************************)
(* buildResponseParams                                                     *)
(***************************************************************************)
\* an optional value that is not set, and one that is
Absent(zero) == [valid |-> FALSE, value |-> zero]
Present(v) == [valid |-> TRUE, value |-> v]

\* temperature and topP in tenths
ChatOptions ==
  [ model : {"", "gpt-4o"},
    temperature : {0, 7},
    topP : {0, 9},
    maxTokens : {Absent(0), Present(0), Present(50)},
    rawMode : BOOLEAN,
    searchEnabled : BOOLEAN,
    searchLocation : {Absent(""), Present(""), Present("America/Los_Angeles")} ]

NoParams ==
  [ Model |-> "", Temperature |-> Absent(0), TopP |-> Absent(0),
    MaxOutputTokens |-> Absent(0), Tools |-> [isNil |-> TRUE, elems |-> <<>>] ]

\* the field set whenever maxTokens is present, a zero included
MaxOutputTokensOfPresent(o) ==
  IF o.maxTokens.valid THEN Present(o.maxTokens.value) ELSE Absent(0)

\* MaxOutputTokens of the request
MaxOutputTokensOf(o) ==
  IF o.maxTokens.valid /\ o.maxTokens.value # 0
  THEN Present(o.maxTokens.value)
  ELSE Absent(0)

\* the UserLocation of the web search tool
UserLocationOf(o) ==
  IF o.searchLocation.valid /\ o.searchLocation.value # ""
  THEN [ valid |-> TRUE, Type |-> "approximate",
         Timezone |-> Present(o.searchLocation.value) ]
  ELSE [ valid |-> FALSE, Type |-> "", Timezone |-> Absent("") ]

\* the web search tool
WebSearchTool(o) ==
  [ OfWebSearchPreview |->
      [ Type |-> "web_search_preview", UserLocation |-> UserLocationOf(o) ] ]

\* an empty list in place of no list when search is off
ToolsOfEmptyList(o) ==
  IF o.searchEnabled
  THEN [isNil |-> FALSE, elems |-> << WebSearchTool(o) >>]
  ELSE [isNil |-> FALSE, elems |-> <<>>]

\* Tools of the request: nil, or the one web search tool
ToolsOf(o) ==
  IF o.searchEnabled
  THEN [isNil |-> FALSE, elems |-> << WebSearchTool(o) >>]
  ELSE [isNil |-> TRUE, elems |-> <<>>]

\* buildResponseParams(msgs, opts)
buildResponseParams(o) ==
  [ Model |-> o.model,
    Temperature |-> Present(o.temperature),
    TopP |-> Present(o.topP),
    MaxOutputTokens |-> MaxOutputTokensOf(o),
    Tools |-> ToolsOf(o) ]

BuildInputs ==
  /\ opts \in ChatOptions
  /\ params = NoParams
  /\ bpc = "input"

BuildQuiet ==
  /\ opts = [ model |-> "", temperature |-> 0, topP |-> 0,
              maxTokens |-> Absent(0), rawMode |-> FALSE,
              searchEnabled |-> FALSE, searchLocation |-> Absent("") ]
  /\ params = NoParams
  /\ bpc = "input"

\* the call client.buildResponseParams(msgs, opts)
Build ==
  /\ bpc = "input"
  /\ params' = buildResponseParams(opts)
  /\ bpc' = "built"
  /\ UNCHANGED << opts, tvars, uvars, cvars >>

\* C8: the request has maxOutputTokens present exactly when maxTokens is
\* present and nonzero, then with that value; unset or zero maxTokens
\* leaves it not set, never a present zero.  Model, temperature and topP
\* are copied verbatim either way.
C8_MaxOutputTokensIffNonzero ==
  bpc = "built" =>
    /\ params.MaxOutputTokens.valid
         <=> (opts.maxTokens.valid /\ opts.maxTokens.value # 0)
    /\ params.MaxOutputTokens.valid
         => params.MaxOutputTokens.value = opts.maxTokens.value
    /\ params.Model = opts.model
    /\ params.Temperature = Present(opts.temperature)
    /\ params.TopP = Present(opts.topP)

\* a request was built from options whose maxTokens is a present zero
C8_Witness ==
  /\ bpc = "built"
  /\ opts.maxTokens = Present(0)
  /\ ~params.MaxOutputTokens.valid
  /\ params.Temperature.value = 7

\* C9: Tools is nil, not an empty list, when search is off, whatever else
\* is set; with search on it holds exactly one web_search_preview tool,
\* which carries a UserLocation (approximate, timezone = searchLocation)
\* exactly when searchLocation is a non-empty string.
C9_ToolsFollowSearch ==
  bpc = "built" =>
    /\ ~opts.searchEnabled => params.Tools.isNil /\ params.Tools.elems = <<>>
    /\ opts.searchEnabled =>
         /\ ~params.Tools.isNil
         /\ Len(params.Tools.elems) = 1
         /\ LET tool == params.Tools.elems[1].OfWebSearchPreview
            IN /\ tool.Type = "web_search_preview"
               /\ tool.UserLocation.valid
                    <=> (opts.searchLocation.valid /\ opts.searchLocation.value # "")
               /\ tool.UserLocation.valid =>
                    /\ tool.UserLocation.Type = "approximate"
                    /\ tool.UserLocation.Timezone
                         = Present(opts.searchLocation.value)

\* a request with search on and a location was built, with the tool located
C9_Witness ==
  /\ bpc = "built"
  /\ opts.searchEnabled
  /\ opts.searchLocation = Present("America/Los_Angeles")
  /\ Len(params.Tools.elems) = 1
  /\ params.Tools.elems[1].OfWebSearchPreview.UserLocation.Timezone.value
       = "America/Los_Angeles"

(***************************************************************************)
(* Specifications                                                          *)
(***************************************************************************)
\* the transport under concurrent callers
Init == TransportInit /\ URLQuiet /\ CitationQuiet /\ BuildQuiet
Next == TransportNext
Spec == Init /\ [][Next]_vars

\* isGitHubCopilotURL over the URLs
InitURL == TransportQuiet /\ URLInputs /\ CitationQuiet /\ BuildQuiet
NextURL == Classify
SpecURL == InitURL /\ [][NextURL]_vars

\* the citation collation over the entry sequences
InitCitations == TransportQuiet /\ URLQuiet /\ CitationInputs /\ BuildQuiet
NextCitations == Collate
SpecCitations == InitCitations /\ [][NextCitations]_vars

\* buildResponseParams over the options
InitBuild == TransportQuiet /\ URLQuiet /\ CitationQuiet /\ BuildInputs
NextBuild == Build
SpecBuild == InitBuild /\ [][NextBuild]_vars

====
